---- MODULE Spec2Model ----
(***************************************************************************)
(* Offline synchronisation of the Glass Inspector web client:              *)
(* apps/web/src/hooks/useOfflineSync.ts (the hook, its drain loop and the  *)
(* per-entity replay handlers) over the Dexie database of db/index.ts      *)
(* (the syncQueue table and the sessions/items/defects tables).            *)
(*                                                                         *)
(* React state is modelled as the hook holds it: the current value of      *)
(* every useState cell, and `rendered`, the values of the last committed   *)
(* render.  Every callback (processQueue, addToQueue, the effect) is a     *)
(* closure over the values of the render that created it, so a guard such  *)
(* as `if (isSyncing) return` reads the closure, not the current cell.     *)
(* Every `await` of a network call is a point where other callbacks run.   *)
(***************************************************************************)
EXTENDS Integers, Sequences, FiniteSets, TLC

\* ---------------------------------------------------------------- bounds
MaxOps == 2          \* operations enqueued in one behaviour
MaxTime == 2         \* values of Date.now()
MaxDrains == 2       \* processQueue invocations alive at once
MaxTimers == 1       \* setTimeout(processQueue, 100) callbacks pending at once
MaxServerId == 2     \* identifiers the remote collaborator hands out
MaxFailures == 1     \* rejections of one operation by the remote, in Spec
MaxRequests == 3     \* requests the API server receives
MaxSeconds == 1      \* seconds the server's clock advances

\* ------------------------------------------------------- program constants
MaxAttempts == 5     \* `if (op.attempts >= 5)`
NoId == 0            \* `serverId?: string` left undefined / entity without server id

OpTypes == {"CREATE", "UPDATE", "DELETE"}
EntityTypes == {"session", "item", "defect"}
SyncStatuses == {"synced", "pending", "error"}

\* One local entity of each kind: session s1, its item i1, the item's defect d1.
LocalIds == {"s1", "i1", "d1"}
EntityTypeOf(l) == IF l = "s1" THEN "session" ELSE IF l = "i1" THEN "item" ELSE "defect"
ServerIds == 1..MaxServerId

\* What a remote call can do: resolve with {success: true, data}, resolve
\* without data, or reject (network error, non-2xx).
Responses == {"ok", "nodata", "throw"}

VARIABLES
    isOnline,       \* useOnlineStatus: useState(navigator.onLine)
    isSyncing,      \* useState(false)
    pendingCount,   \* useState(0)
    rendered,       \* the three cells as the last committed render saw them
    syncQueue,      \* db.syncQueue: primary key -> SyncOperation
    nextId,         \* the ++id auto-increment of db.syncQueue
    now,            \* Date.now()
    store,          \* db.sessions / db.items / db.defects, keyed by localId: the server id
                    \* (id), syncStatus, and the reference to the parent (sessionId / itemId)
    timers,         \* pending setTimeout(processQueue, 100): closure's isSyncing -> count
    drains,         \* running processQueue invocations, oldest first: where the loop is (pc, i),
                    \* the operations it read (ops), those it submitted so far (log), and the
                    \* id in the response the handler just got, if any (resp); history:
                    \* the next key of the queue when the invocation began, kept until
                    \* the queue is read (start)
    sent,           \* history: ids of operations ever submitted to the remote
    dbItems,        \* API server, prisma.item of one session: the sequence numbers of its
                    \* items, in creation order
    dbDefects,      \* prisma.defect of one item: the ids of its defects
    dbItemStatus,   \* the status of that item
    dbTokens,       \* prisma.refreshToken: rows [id, token, userId, expired]
    srvNow,         \* the server's clock, in seconds (the `iat` of a token signed now)
    dbSession,      \* prisma.session, one row: [userId, status]
    reqs            \* the requests the API server has received: route (kind), caller
                    \* (user), parameter (arg), where the handler is (pc), what it has read
                    \* (local), and its answer once it is done (result)

hook == <<isOnline, isSyncing, pendingCount, rendered, syncQueue, nextId, now,
          store, timers, drains, sent>>

server == <<dbItems, dbDefects, dbItemStatus, dbTokens, srvNow, dbSession, reqs>>

vars == <<hook, server>>

\* ------------------------------------------------------------------ helpers
Cells == [isOnline |-> isOnline, isSyncing |-> isSyncing, pendingCount |-> pendingCount]

Remove(q, id) == [k \in (DOMAIN q) \ {id} |-> q[k]]

RemoveAt(s, d) == [k \in 1..(Len(s) - 1) |-> IF k < d THEN s[k] ELSE s[k + 1]]

\* db.syncQueue.orderBy('timestamp').toArray(): the records in ascending order
\* of the timestamp index, equal timestamps in primary-key order.
Before(a, b) == a.timestamp < b.timestamp \/ (a.timestamp = b.timestamp /\ a.id < b.id)

RECURSIVE OrderBy(_)
OrderBy(q) ==
    IF DOMAIN q = {} THEN <<>>
    ELSE LET m == CHOOSE k \in DOMAIN q : \A j \in (DOMAIN q) \ {k} : Before(q[k], q[j])
         IN  <<q[m]>> \o OrderBy(Remove(q, m))

\* The same records with the index read backwards.
RECURSIVE OrderByReversed(_)
OrderByReversed(q) ==
    IF DOMAIN q = {} THEN <<>>
    ELSE LET m == CHOOSE k \in DOMAIN q : \A j \in (DOMAIN q) \ {k} : Before(q[j], q[k])
         IN  <<q[m]>> \o OrderByReversed(Remove(q, m))

OrderByTimestamp(q) == OrderBy(q)

\* The handlers without their `if (op.serverId)` tests.
CallsRemoteUnguarded(op) ==
    \/ op.type = "CREATE"
    \/ op.type = "UPDATE" /\ op.entityType \in {"session", "item"}
    \/ op.type = "DELETE" /\ op.entityType \in {"session", "defect"}

\* Whether the handler of processOperation issues a remote request for op.
CallsRemote(op) ==
    \/ op.type = "CREATE"
    \/ op.type = "UPDATE" /\ op.entityType \in {"session", "item"} /\ op.serverId # NoId
    \/ op.type = "DELETE" /\ op.entityType \in {"session", "defect"} /\ op.serverId # NoId

\* ------------------------------------------------------------------- Init
\* The API server's database: a session of user u1 without items, an item
\* without defects, one refresh token of u1 signed at second 0.
Users == {"u1", "u2"}
SessionStatuses == {"OPEN", "PAUSED", "CLOSED"}

InitServer ==
    /\ dbItems = <<>>
    /\ dbDefects = {}
    /\ dbItemStatus = "OK"
    /\ dbTokens = {[id |-> 0, token |-> 0, userId |-> "u1", expired |-> FALSE]}
    /\ srvNow = 0
    /\ dbSession = [userId |-> "u1", status |-> "OPEN"]
    /\ reqs = <<>>

\* The hook after mount, over an empty queue.
InitHook ==
    /\ InitServer
    /\ isOnline \in BOOLEAN
    /\ isSyncing = FALSE
    /\ pendingCount = 0
    /\ rendered = [isOnline |-> isOnline, isSyncing |-> FALSE, pendingCount |-> 0]
    /\ syncQueue = <<>>
    /\ nextId = 1
    /\ now = 1
    /\ timers = [b \in BOOLEAN |-> 0]
    /\ drains = <<>>
    /\ sent = {}

Init == InitHook /\ store = <<>>

\* ------------------------------------------------------------ processQueue
\* processQueue(): `if (isSyncing) return; setIsSyncing(true); ... await
\* db.syncQueue.orderBy('timestamp').toArray()`.  cSyncing is the isSyncing of
\* the render whose closure is being called.
ProcessQueue(cSyncing) ==
    IF cSyncing
    THEN UNCHANGED <<isSyncing, drains>>
    ELSE /\ Len(drains) < MaxDrains
         /\ isSyncing' = TRUE
         /\ drains' = Append(drains, [pc |-> "read", ops |-> <<>>, i |-> 1, log |-> <<>>, resp |-> NoId, start |-> nextId])

\* The effect of lines 43-47, run by the commit of a render whose
\* dependencies [isOnline, pendingCount, isSyncing] differ from the last one.
Render ==
    /\ Cells # rendered
    /\ rendered' = Cells
    /\ IF isOnline /\ pendingCount > 0 /\ ~isSyncing
       THEN ProcessQueue(isSyncing)
       ELSE UNCHANGED <<isSyncing, drains>>
    /\ UNCHANGED <<isOnline, pendingCount, syncQueue, nextId, now, store, timers, sent, server>>

\* The timer of addToQueue fires: the processQueue of the render that created
\* that addToQueue runs.
TimerFires ==
    \E b \in BOOLEAN :
        /\ timers[b] > 0
        /\ timers' = [timers EXCEPT ![b] = @ - 1]
        /\ ProcessQueue(b)
        /\ UNCHANGED <<isOnline, pendingCount, rendered, syncQueue, nextId, now, store, sent, server>>

\* `const operations = await db.syncQueue.orderBy('timestamp').toArray()` resolves.
DrainReads ==
    \E d \in 1..Len(drains) :
        /\ drains[d].pc = "read"
        /\ drains' = [drains EXCEPT ![d].pc = "next", ![d].ops = OrderByTimestamp(syncQueue), ![d].start = 0]
        /\ UNCHANGED <<isOnline, isSyncing, pendingCount, rendered, syncQueue, nextId, now, store, timers, sent, server>>

\* The loop reaches operations[i]: processOperation(op) either issues the
\* remote request and awaits it, or returns without one, and then
\* `await db.syncQueue.delete(op.id)` runs.
DrainProcesses ==
    \E d \in 1..Len(drains) :
        LET dr == drains[d] IN
        /\ dr.pc = "next"
        /\ dr.i <= Len(dr.ops)
        /\ LET op == dr.ops[dr.i] IN
           IF CallsRemote(op)
           THEN /\ drains' = [drains EXCEPT ![d].pc = "await", ![d].log = Append(@, op), ![d].resp = NoId]
                /\ sent' = sent \cup {op.id}
                /\ UNCHANGED syncQueue
           ELSE /\ drains' = [drains EXCEPT ![d].i = @ + 1, ![d].resp = NoId]
                /\ syncQueue' = Remove(syncQueue, op.id)
                /\ UNCHANGED sent
        /\ UNCHANGED <<isOnline, isSyncing, pendingCount, rendered, nextId, now, store, timers, server>>

\* The same without the `db.syncQueue.delete(op.id)` that follows the handler.
SucceedsKeepsOperation(d, r, sid) ==
    LET dr == drains[d]
        op == dr.ops[dr.i]
    IN  /\ dr.pc = "await"
        /\ store' = IF op.type = "CREATE" /\ r = "ok" /\ op.localId \in DOMAIN store
                    THEN [store EXCEPT ![op.localId].id = sid, ![op.localId].syncStatus = "synced"]
                    ELSE store
        /\ drains' = [drains EXCEPT ![d].pc = "next", ![d].i = dr.i + 1,
                                     ![d].resp = IF op.type = "CREATE" /\ r = "ok" THEN sid ELSE NoId]
        /\ UNCHANGED <<isOnline, isSyncing, pendingCount, rendered, syncQueue, nextId, now, timers, sent, server>>

\* The same with the entity marked 'synced' but the id of the response dropped.
SucceedsWithoutId(d, r, sid) ==
    LET dr == drains[d]
        op == dr.ops[dr.i]
    IN  /\ dr.pc = "await"
        /\ store' = IF op.type = "CREATE" /\ r = "ok" /\ op.localId \in DOMAIN store
                    THEN [store EXCEPT ![op.localId].syncStatus = "synced"]
                    ELSE store
        /\ syncQueue' = Remove(syncQueue, op.id)
        /\ drains' = [drains EXCEPT ![d].pc = "next", ![d].i = dr.i + 1,
                                     ![d].resp = IF op.type = "CREATE" /\ r = "ok" THEN sid ELSE NoId]
        /\ UNCHANGED <<isOnline, isSyncing, pendingCount, rendered, nextId, now, timers, sent, server>>

\* The same with every resolved request, not only a CREATE, marking the entity 'synced'.
SucceedsMarksSynced(d, r, sid) ==
    LET dr == drains[d]
        op == dr.ops[dr.i]
    IN  /\ dr.pc = "await"
        /\ store' = IF r = "ok" /\ op.localId \in DOMAIN store
                    THEN [store EXCEPT ![op.localId].id = IF op.type = "CREATE" THEN sid ELSE @,
                                       ![op.localId].syncStatus = "synced"]
                    ELSE store
        /\ syncQueue' = Remove(syncQueue, op.id)
        /\ drains' = [drains EXCEPT ![d].pc = "next", ![d].i = dr.i + 1,
                                     ![d].resp = IF op.type = "CREATE" /\ r = "ok" THEN sid ELSE NoId]
        /\ UNCHANGED <<isOnline, isSyncing, pendingCount, rendered, nextId, now, timers, sent, server>>

\* The same with `db.syncQueue.clear()` for `db.syncQueue.delete(op.id)`.
SucceedsClearsQueue(d, r, sid) ==
    LET dr == drains[d]
        op == dr.ops[dr.i]
    IN  /\ dr.pc = "await"
        /\ store' = IF op.type = "CREATE" /\ r = "ok" /\ op.localId \in DOMAIN store
                    THEN [store EXCEPT ![op.localId].id = sid, ![op.localId].syncStatus = "synced"]
                    ELSE store
        /\ syncQueue' = <<>>
        /\ drains' = [drains EXCEPT ![d].pc = "next", ![d].i = dr.i + 1,
                                     ![d].resp = IF op.type = "CREATE" /\ r = "ok" THEN sid ELSE NoId]
        /\ UNCHANGED <<isOnline, isSyncing, pendingCount, rendered, nextId, now, timers, sent, server>>

\* The awaited request resolves: for a CREATE with `response.success &&
\* response.data` the local entity, if present, gets the server id and
\* 'synced'; then the operation is deleted from the queue.
Succeeds(d, r, sid) ==
    LET dr == drains[d]
        op == dr.ops[dr.i]
    IN  /\ dr.pc = "await"
        /\ store' = IF op.type = "CREATE" /\ r = "ok" /\ op.localId \in DOMAIN store
                    THEN [store EXCEPT ![op.localId].id = sid, ![op.localId].syncStatus = "synced"]
                    ELSE store
        /\ syncQueue' = Remove(syncQueue, op.id)
        /\ drains' = [drains EXCEPT ![d].pc = "next", ![d].i = dr.i + 1,
                                     ![d].resp = IF op.type = "CREATE" /\ r = "ok" THEN sid ELSE NoId]
        /\ UNCHANGED <<isOnline, isSyncing, pendingCount, rendered, nextId, now, timers, sent, server>>

\* db.syncQueue.update(key, changes): changes the record if the key exists.
DbUpdate(q, id, attempts, lastError) ==
    IF id \in DOMAIN q
    THEN [q EXCEPT ![id] = [@ EXCEPT !.attempts = attempts, !.lastError = lastError]]
    ELSE q

\* The catch branch's test for dropping the operation.
TooManyAttempts(op) == op.attempts >= MaxAttempts

\* The awaited request rejects: the catch branch of lines 60-66 records the
\* failure, `attempts: op.attempts + 1` from the operation as the drain read it.
Fails(d, cap) ==
    LET dr == drains[d]
        op == dr.ops[dr.i]
    IN  /\ dr.pc = "await"
        /\ op.attempts < cap
        /\ syncQueue' = DbUpdate(syncQueue, op.id, op.attempts + 1, "Error")
        /\ drains' = [drains EXCEPT ![d].pc = "catch"]
        /\ UNCHANGED <<isOnline, isSyncing, pendingCount, rendered, nextId, now, store, timers, sent, server>>

\* The same with a `break` out of the loop after a failure.
DrainGivesUpBreaks ==
    \E d \in 1..Len(drains) :
        LET dr == drains[d]
            op == dr.ops[dr.i]
        IN  /\ dr.pc = "catch"
            /\ syncQueue' = IF TooManyAttempts(op) THEN Remove(syncQueue, op.id) ELSE syncQueue
            /\ drains' = [drains EXCEPT ![d].pc = "next", ![d].i = Len(dr.ops) + 1]
            /\ UNCHANGED <<isOnline, isSyncing, pendingCount, rendered, nextId, now, store, timers, sent, server>>

\* Lines 67-71, after the update was awaited: drop the operation or keep it,
\* then go on with the next one.
DrainGivesUp ==
    \E d \in 1..Len(drains) :
        LET dr == drains[d]
            op == dr.ops[dr.i]
        IN  /\ dr.pc = "catch"
            /\ syncQueue' = IF TooManyAttempts(op) THEN Remove(syncQueue, op.id) ELSE syncQueue
            /\ drains' = [drains EXCEPT ![d].pc = "next", ![d].i = dr.i + 1]
            /\ UNCHANGED <<isOnline, isSyncing, pendingCount, rendered, nextId, now, store, timers, sent, server>>

\* The remote answers the request in flight with one of the responses R; it
\* rejects an operation only while the drain read fewer than cap attempts of it.
DrainResponse(R, cap) ==
    \E d \in 1..Len(drains) : \E r \in R :
        IF r = "throw" THEN Fails(d, cap) ELSE \E sid \in ServerIds : Succeeds(d, r, sid)

\* The same without `setIsSyncing(false)`.
DrainFinishesKeepsFlag ==
    \E d \in 1..Len(drains) :
        /\ drains[d].pc = "next"
        /\ drains[d].i > Len(drains[d].ops)
        /\ pendingCount' = Cardinality(DOMAIN syncQueue)
        /\ drains' = RemoveAt(drains, d)
        /\ UNCHANGED <<isOnline, isSyncing, rendered, syncQueue, nextId, now, store, timers, sent, server>>

\* The same without the count of the queue.
DrainFinishesKeepsCount ==
    \E d \in 1..Len(drains) :
        /\ drains[d].pc = "next"
        /\ drains[d].i > Len(drains[d].ops)
        /\ isSyncing' = FALSE
        /\ drains' = RemoveAt(drains, d)
        /\ UNCHANGED <<isOnline, pendingCount, rendered, syncQueue, nextId, now, store, timers, sent, server>>

\* The loop is over: `finally { setIsSyncing(false); setPendingCount(await
\* db.syncQueue.count()) }`.
DrainFinishes ==
    \E d \in 1..Len(drains) :
        /\ drains[d].pc = "next"
        /\ drains[d].i > Len(drains[d].ops)
        /\ isSyncing' = FALSE
        /\ pendingCount' = Cardinality(DOMAIN syncQueue)
        /\ drains' = RemoveAt(drains, d)
        /\ UNCHANGED <<isOnline, rendered, syncQueue, nextId, now, store, timers, sent, server>>

\* -------------------------------------------------------------- addToQueue
\* The same with `setPendingCount(pendingCount + 1)`, the count of the closure.
AddToQueueStaleCount(type, entityType, localId, data, serverId) ==
    /\ nextId <= MaxOps
    /\ \E t \in now..MaxTime :
        /\ now' = t
        /\ syncQueue' = (nextId :> [id |-> nextId, type |-> type, entityType |-> entityType,
                                     localId |-> localId, serverId |-> serverId, data |-> data,
                                     timestamp |-> t, attempts |-> 0, lastError |-> "none"])
                        @@ syncQueue
    /\ nextId' = nextId + 1
    /\ pendingCount' = rendered.pendingCount + 1
    /\ IF rendered.isOnline
       THEN /\ timers[rendered.isSyncing] < MaxTimers
            /\ timers' = [timers EXCEPT ![rendered.isSyncing] = @ + 1]
       ELSE UNCHANGED timers
    /\ UNCHANGED <<isOnline, isSyncing, rendered, drains, sent, server>>

\* addToQueue(type, entityType, localId, data, serverId), called through the
\* closure of the last committed render.
AddToQueue(type, entityType, localId, data, serverId) ==
    /\ nextId <= MaxOps
    /\ \E t \in now..MaxTime :
        /\ now' = t
        /\ syncQueue' = (nextId :> [id |-> nextId, type |-> type, entityType |-> entityType,
                                     localId |-> localId, serverId |-> serverId, data |-> data,
                                     timestamp |-> t, attempts |-> 0, lastError |-> "none"])
                        @@ syncQueue
    /\ nextId' = nextId + 1
    /\ pendingCount' = pendingCount + 1
    /\ IF rendered.isOnline
       THEN /\ timers[rendered.isSyncing] < MaxTimers
            /\ timers' = [timers EXCEPT ![rendered.isSyncing] = @ + 1]
       ELSE UNCHANGED timers
    /\ UNCHANGED <<isOnline, isSyncing, rendered, drains, sent, server>>

\* The payload of a CREATE names the parent as the caller knows it: the
\* parent's server id once it has one.
ParentOf(l) == IF l = "i1" THEN "s1" ELSE "i1"

DataOf(l) ==
    IF l = "s1" THEN [parent |-> NoId] ELSE [parent |-> store[ParentOf(l)].id]

\* A UI action creates a local entity (sync status pending) and enqueues its CREATE.
UiCreate ==
    \E l \in LocalIds :
        /\ l \notin DOMAIN store
        /\ l # "s1" => ParentOf(l) \in DOMAIN store
        /\ store' = (l :> [id |-> NoId, syncStatus |-> "pending", parent |-> DataOf(l).parent]) @@ store
        /\ AddToQueue("CREATE", EntityTypeOf(l), l, DataOf(l), NoId)

\* A UI action edits a local entity (sync status pending) and enqueues an
\* UPDATE carrying the server id the entity has at that moment, if any.
UiUpdate ==
    \E l \in DOMAIN store :
        /\ store' = [store EXCEPT ![l].syncStatus = "pending"]
        /\ AddToQueue("UPDATE", EntityTypeOf(l), l, DataOf(l), store[l].id)

\* A UI action deletes an entity: the record stays, written with sync status
\* pending, and the DELETE is enqueued.
UiDelete ==
    \E l \in DOMAIN store :
        /\ store' = [store EXCEPT ![l].syncStatus = "pending"]
        /\ AddToQueue("DELETE", EntityTypeOf(l), l, DataOf(l), store[l].id)

\* ------------------------------------------------------- the other triggers
\* updateCount of lines 30-40, on mount and every 5 s.
Poll ==
    /\ pendingCount' = Cardinality(DOMAIN syncQueue)
    /\ UNCHANGED <<isOnline, isSyncing, rendered, syncQueue, nextId, now, store, timers, drains, sent, server>>

\* handleOnline / handleOffline of useOnlineStatus.
GoOnline ==
    /\ ~isOnline
    /\ isOnline' = TRUE
    /\ UNCHANGED <<isSyncing, pendingCount, rendered, syncQueue, nextId, now, store, timers, drains, sent, server>>

GoOffline ==
    /\ isOnline
    /\ isOnline' = FALSE
    /\ UNCHANGED <<isSyncing, pendingCount, rendered, syncQueue, nextId, now, store, timers, drains, sent, server>>

Next ==
    \/ UiCreate
    \/ UiUpdate
    \/ UiDelete
    \/ Render
    \/ TimerFires
    \/ DrainReads
    \/ DrainProcesses
    \/ DrainResponse(Responses, MaxFailures)
    \/ DrainGivesUp
    \/ DrainFinishes
    \/ Poll
    \/ GoOnline
    \/ GoOffline

Spec == Init /\ [][Next]_vars

\* ------------------------------------------------- the other specifications
InitOnline == Init /\ isOnline

\* No limit on the rejections of one operation: the code stops retrying by itself.
NoCap == MaxAttempts + 1

\* Retries up to the ceiling: connectivity stays online, every operation is a
\* CREATE, and the remote rejects every request.
NextRetry ==
    \/ UiCreate
    \/ Render
    \/ TimerFires
    \/ DrainReads
    \/ DrainProcesses
    \/ DrainResponse({"throw"}, NoCap)
    \/ DrainGivesUp
    \/ DrainFinishes

SpecRetry == InitOnline /\ [][NextRetry]_vars

\* A local store that a session of an earlier run, synced then, is left in.
SyncedSession == "s1" :> [id |-> 1, syncStatus |-> "synced", parent |-> NoId]

\* The same store with the session's item and the item's defect, synced too.
SyncedChain ==
    [l \in LocalIds |-> [id |-> 1, syncStatus |-> "synced", parent |-> IF l = "s1" THEN NoId ELSE 1]]

InitOK == InitHook /\ isOnline /\ store \in {<<>>, SyncedSession}

InitChain == InitHook /\ isOnline /\ store = SyncedChain

\* Connectivity stays online and the remote collaborator always succeeds.  The
\* event loop runs every callback that is ready and every request is answered;
\* nothing obliges the user to act.
NextOK ==
    \/ UiCreate
    \/ UiUpdate
    \/ UiDelete
    \/ Render
    \/ TimerFires
    \/ DrainReads
    \/ DrainProcesses
    \/ DrainResponse({"ok"}, NoCap)
    \/ DrainFinishes
    \/ Poll

SpecOK ==
    /\ InitOK
    /\ [][NextOK]_vars
    /\ WF_vars(Render)
    /\ WF_vars(TimerFires)
    /\ WF_vars(DrainReads)
    /\ WF_vars(DrainProcesses)
    /\ WF_vars(DrainResponse({"ok"}, NoCap))
    /\ WF_vars(DrainFinishes)

\* The same steps, but for the creation of entities, over a store that holds
\* session, item and defect, synced.
NextChain ==
    \/ UiUpdate
    \/ UiDelete
    \/ Render
    \/ TimerFires
    \/ DrainReads
    \/ DrainProcesses
    \/ DrainResponse({"ok"}, NoCap)
    \/ DrainFinishes
    \/ Poll

SpecChain == InitChain /\ [][NextChain]_vars

\* The remote accepts every CREATE and rejects every other request.
RemoteRejectsChanges ==
    \E d \in 1..Len(drains) :
        /\ drains[d].pc = "await"
        /\ IF drains[d].ops[drains[d].i].type = "CREATE"
           THEN \E sid \in ServerIds : Succeeds(d, "ok", sid)
           ELSE Fails(d, NoCap)

\* Retries of an UPDATE up to the ceiling: connectivity stays online, entities
\* are created and edited.
NextGiveUp ==
    \/ UiCreate
    \/ UiUpdate
    \/ Render
    \/ TimerFires
    \/ DrainReads
    \/ DrainProcesses
    \/ RemoteRejectsChanges
    \/ DrainGivesUp
    \/ DrainFinishes

SpecGiveUp == InitOnline /\ [][NextGiveUp]_vars

\* Connectivity stays online, the remote accepts or rejects as in Spec, and the
\* event loop runs every callback that is ready and every request is answered.
NextMix ==
    \/ UiCreate
    \/ UiUpdate
    \/ Render
    \/ TimerFires
    \/ DrainReads
    \/ DrainProcesses
    \/ DrainResponse({"ok", "throw"}, MaxFailures)
    \/ DrainGivesUp
    \/ DrainFinishes

SpecMix ==
    /\ InitOnline
    /\ [][NextMix]_vars
    /\ WF_vars(Render)
    /\ WF_vars(TimerFires)
    /\ WF_vars(DrainReads)
    /\ WF_vars(DrainProcesses)
    /\ WF_vars(DrainResponse({"ok", "throw"}, MaxFailures))
    /\ WF_vars(DrainGivesUp)
    /\ WF_vars(DrainFinishes)

\* ------------------------------------------------------------ the API server
\* A request arrives and its handler runs up to its second await.
Receive(kind, user, arg, pc, local, result) ==
    /\ Len(reqs) < MaxRequests
    /\ reqs' = Append(reqs, [kind |-> kind, user |-> user, arg |-> arg, pc |-> pc,
                             local |-> local, result |-> result])

\* The handler of request r goes on to pc, or answers.
Goes(r, pc, local) == reqs' = [reqs EXCEPT ![r].pc = pc, ![r].local = local]
Answers(r, result) == reqs' = [reqs EXCEPT ![r].pc = "done", ![r].result = result]

At(r, kind, pc) == reqs[r].kind = kind /\ reqs[r].pc = pc

RECURSIVE MaxOf(_)
MaxOf(seq) ==
    IF seq = <<>> THEN 0
    ELSE LET m == MaxOf(Tail(seq)) IN IF Head(seq) > m THEN Head(seq) ELSE m

\* POST /:id/items: the session is found, then `prisma.item.findFirst({where:
\* {sessionId}, orderBy: {sequence: 'desc'}})` is awaited.
PostItemBegins ==
    /\ Receive("postItem", "u1", 0, "findFirst", 0, "none")
    /\ UNCHANGED <<hook, dbItems, dbDefects, dbItemStatus, dbTokens, srvNow, dbSession>>

\* findFirst resolves: `sequence = (lastItem?.sequence || 0) + 1`.
PostItemReadsLast ==
    \E r \in 1..Len(reqs) :
        /\ At(r, "postItem", "findFirst")
        /\ Goes(r, "create", MaxOf(dbItems) + 1)
        /\ UNCHANGED <<hook, dbItems, dbDefects, dbItemStatus, dbTokens, srvNow, dbSession>>

\* `prisma.item.create({data: {sessionId, sequence, status: 'OK'}})`, then 201.
PostItemCreates ==
    \E r \in 1..Len(reqs) :
        /\ At(r, "postItem", "create")
        /\ dbItems' = Append(dbItems, reqs[r].local)
        /\ Answers(r, "ok")
        /\ UNCHANGED <<hook, dbDefects, dbItemStatus, dbTokens, srvNow, dbSession>>

\* POST /items/:itemId/defects: the item is found, prisma.defect.create is awaited.
PostDefectBegins ==
    /\ Receive("postDefect", "u1", 0, "create", 0, "none")
    /\ UNCHANGED <<hook, dbItems, dbDefects, dbItemStatus, dbTokens, srvNow, dbSession>>

\* The defect is created (its id: the number of the request), then
\* `prisma.item.update({data: {status: 'DEFECTIVE'}})` is awaited.
PostDefectCreates ==
    \E r \in 1..Len(reqs) :
        /\ At(r, "postDefect", "create")
        /\ dbDefects' = dbDefects \cup {r}
        /\ Goes(r, "update", 0)
        /\ UNCHANGED <<hook, dbItems, dbItemStatus, dbTokens, srvNow, dbSession>>

PostDefectUpdates ==
    \E r \in 1..Len(reqs) :
        /\ At(r, "postDefect", "update")
        /\ dbItemStatus' = "DEFECTIVE"
        /\ Answers(r, "ok")
        /\ UNCHANGED <<hook, dbItems, dbDefects, dbTokens, srvNow, dbSession>>

\* DELETE /defects/:defectId: findUnique, NotFoundError if there is none.
DeleteDefectBegins ==
    \E def \in 1..MaxRequests :
        /\ IF def \in dbDefects
           THEN Receive("deleteDefect", "u1", def, "delete", 0, "none")
           ELSE Receive("deleteDefect", "u1", def, "done", 0, "notfound")
        /\ UNCHANGED <<hook, dbItems, dbDefects, dbItemStatus, dbTokens, srvNow, dbSession>>

\* `prisma.defect.delete({where: {id}})`: throws when the row is gone.
DeleteDefectDeletes ==
    \E r \in 1..Len(reqs) :
        /\ At(r, "deleteDefect", "delete")
        /\ IF reqs[r].arg \in dbDefects
           THEN dbDefects' = dbDefects \ {reqs[r].arg} /\ Goes(r, "count", 0)
           ELSE UNCHANGED dbDefects /\ Answers(r, "error")
        /\ UNCHANGED <<hook, dbItems, dbItemStatus, dbTokens, srvNow, dbSession>>

\* `remainingDefects = await prisma.defect.count({where: {itemId}})`.
DeleteDefectCounts ==
    \E r \in 1..Len(reqs) :
        /\ At(r, "deleteDefect", "count")
        /\ IF Cardinality(dbDefects) = 0 THEN Goes(r, "update", 0) ELSE Answers(r, "ok")
        /\ UNCHANGED <<hook, dbItems, dbDefects, dbItemStatus, dbTokens, srvNow, dbSession>>

\* `if (remainingDefects === 0) prisma.item.update({data: {status: 'OK'}})`.
DeleteDefectUpdates ==
    \E r \in 1..Len(reqs) :
        /\ At(r, "deleteDefect", "update")
        /\ dbItemStatus' = "OK"
        /\ Answers(r, "ok")
        /\ UNCHANGED <<hook, dbItems, dbDefects, dbTokens, srvNow, dbSession>>

\* The rows of prisma.refreshToken with token string t (token is a unique field).
RowsOf(t) == {row \in dbTokens : row.token = t}

\* `fastify.jwt.sign({userId, tokenType: 'refresh'}, ...)`: the string is a
\* function of the payload, whose `iat` is the clock in seconds; all tokens
\* here are of user u1.
SignRefreshToken == srvNow

\* refreshAccessToken(fastify, t): findUnique by token; UnauthorizedError if
\* there is none; else the expiry test.
RefreshBegins ==
    \E t \in 0..MaxSeconds :
        /\ IF RowsOf(t) = {}
           THEN Receive("refresh", "u1", t, "done", 0, "invalid")
           ELSE LET row == CHOOSE x \in RowsOf(t) : TRUE
                IN  Receive("refresh", "u1", t, IF row.expired THEN "deleteExpired" ELSE "delete",
                            row.id, "none")
        /\ UNCHANGED <<hook, dbItems, dbDefects, dbItemStatus, dbTokens, srvNow, dbSession>>

\* `prisma.refreshToken.delete({where: {id: storedToken.id}})` of lines
\* 235-238, then `throw new UnauthorizedError('Refresh token expired')`.
RefreshDeletesExpired ==
    \E r \in 1..Len(reqs) :
        /\ At(r, "refresh", "deleteExpired")
        /\ dbTokens' = {row \in dbTokens : row.id # reqs[r].local}
        /\ Answers(r, IF dbTokens' = dbTokens THEN "error" ELSE "expired")
        /\ UNCHANGED <<hook, dbItems, dbDefects, dbItemStatus, srvNow, dbSession>>

\* The delete of lines 242-244, which throws when the row is gone; then the
\* tokens are signed and prisma.refreshToken.create is awaited.
RefreshDeletes ==
    \E r \in 1..Len(reqs) :
        /\ At(r, "refresh", "delete")
        /\ dbTokens' = {row \in dbTokens : row.id # reqs[r].local}
        /\ IF dbTokens' = dbTokens THEN Answers(r, "error") ELSE Goes(r, "create", SignRefreshToken)
        /\ UNCHANGED <<hook, dbItems, dbDefects, dbItemStatus, srvNow, dbSession>>

\* `prisma.refreshToken.create({data: {token: newRefreshToken, ...}})`: throws
\* when a row with that token exists; else the new tokens are returned.
RefreshCreates ==
    \E r \in 1..Len(reqs) :
        /\ At(r, "refresh", "create")
        /\ IF RowsOf(reqs[r].local) # {}
           THEN UNCHANGED dbTokens /\ Answers(r, "error")
           ELSE /\ dbTokens' = dbTokens \cup {[id |-> r, token |-> reqs[r].local,
                                               userId |-> "u1", expired |-> FALSE]}
                /\ Answers(r, "ok")
        /\ UNCHANGED <<hook, dbItems, dbDefects, dbItemStatus, srvNow, dbSession>>

\* logout(userId, refreshToken): deleteMany({where: {userId, token}}).
Logout ==
    \E u \in Users : \E t \in 0..MaxSeconds :
        /\ Receive("logout", u, t, "done", 0, "ok")
        /\ dbTokens' = {row \in dbTokens : ~(row.userId = u /\ row.token = t)}
        /\ UNCHANGED <<hook, dbItems, dbDefects, dbItemStatus, srvNow, dbSession>>

\* A second passes on the server.
Tick ==
    /\ srvNow < MaxSeconds
    /\ srvNow' = srvNow + 1
    /\ UNCHANGED <<hook, dbItems, dbDefects, dbItemStatus, dbTokens, dbSession, reqs>>

\* The expiresAt of a stored token passes.
Expires ==
    \E row \in dbTokens :
        /\ ~row.expired
        /\ dbTokens' = (dbTokens \ {row}) \cup {[row EXCEPT !.expired = TRUE]}
        /\ UNCHANGED <<hook, dbItems, dbDefects, dbItemStatus, srvNow, dbSession, reqs>>

\* POST /:id/takeover by user u: findUnique; ForbiddenError for a CLOSED session.
TakeoverBegins ==
    \E u \in Users :
        /\ IF dbSession.status = "CLOSED"
           THEN Receive("takeover", u, 0, "done", 0, "forbidden")
           ELSE Receive("takeover", u, 0, "update", dbSession.userId, "none")
        /\ UNCHANGED <<hook, dbItems, dbDefects, dbItemStatus, dbTokens, srvNow, dbSession>>

\* `prisma.session.update({data: {userId: request.user.userId, status: 'OPEN'}})`.
TakeoverUpdates ==
    \E r \in 1..Len(reqs) :
        /\ At(r, "takeover", "update")
        /\ dbSession' = [userId |-> reqs[r].user, status |-> "OPEN"]
        /\ Answers(r, "ok")
        /\ UNCHANGED <<hook, dbItems, dbDefects, dbItemStatus, dbTokens, srvNow>>

\* The users are inspectors; none is ADMIN.
RoleOf(u) == "INSPECTOR"

\* PATCH /:id by user u with {status: st}: findUnique, then the owner test.
PatchBegins ==
    \E u \in Users : \E st \in SessionStatuses :
        /\ IF dbSession.userId # u /\ RoleOf(u) # "ADMIN"
           THEN Receive("patch", u, st, "done", 0, "forbidden")
           ELSE Receive("patch", u, st, "update", 0, "none")
        /\ UNCHANGED <<hook, dbItems, dbDefects, dbItemStatus, dbTokens, srvNow, dbSession>>

\* `prisma.session.update({where: {id}, data: updateData})`.
PatchUpdates ==
    \E r \in 1..Len(reqs) :
        /\ At(r, "patch", "update")
        /\ dbSession' = [dbSession EXCEPT !.status = reqs[r].arg]
        /\ Answers(r, "ok")
        /\ UNCHANGED <<hook, dbItems, dbDefects, dbItemStatus, dbTokens, srvNow>>

\* The API server alone, under requests of one kind of resource at a time.
InitApi == InitHook /\ isOnline /\ store = <<>>

NextItems == PostItemBegins \/ PostItemReadsLast \/ PostItemCreates

SpecItems == InitApi /\ [][NextItems]_vars

NextDefects ==
    \/ PostDefectBegins
    \/ PostDefectCreates
    \/ PostDefectUpdates
    \/ DeleteDefectBegins
    \/ DeleteDefectDeletes
    \/ DeleteDefectCounts
    \/ DeleteDefectUpdates

SpecDefects == InitApi /\ [][NextDefects]_vars

NextTokens ==
    \/ RefreshBegins
    \/ RefreshDeletesExpired
    \/ RefreshDeletes
    \/ RefreshCreates
    \/ Logout
    \/ Tick
    \/ Expires

SpecTokens == InitApi /\ [][NextTokens]_vars

NextTakeover == TakeoverBegins \/ TakeoverUpdates \/ PatchBegins \/ PatchUpdates

SpecTakeover == InitApi /\ [][NextTakeover]_vars

\* ------------------------------------------------------------ type invariant
TypeOK ==
    /\ isOnline \in BOOLEAN /\ isSyncing \in BOOLEAN
    /\ pendingCount \in 0..MaxOps
    /\ nextId \in 1..(MaxOps + 1)
    /\ DOMAIN syncQueue \subseteq 1..MaxOps
    /\ \A k \in DOMAIN syncQueue : syncQueue[k].id = k /\ syncQueue[k].attempts \in 0..(MaxAttempts + 1)
    /\ Len(drains) <= MaxDrains

\* ------------------------------------------------------------------ claims
InFlight(d) == drains[d].pc = "await"
Current(d) == drains[d].ops[drains[d].i]

\* C1: two processQueue invocations never both have a submission of the same
\* queue entry in flight.
C1_NoDuplicateSubmission ==
    \A d1, d2 \in 1..Len(drains) :
        (d1 # d2 /\ InFlight(d1) /\ InFlight(d2)) => Current(d1).id # Current(d2).id

\* C10: at most one drain loop is active and at most one remote request of
\* the sync engine is in flight.
C10_OneDrainOneRequest ==
    /\ Len(drains) <= 1
    /\ Cardinality({d \in 1..Len(drains) : InFlight(d)}) <= 1

\* C3: an UPDATE whose entity has no server identifier stays in the queue,
\* unchanged, whatever the drain does.
C3_UnresolvedUpdateStays ==
    [][\A id \in DOMAIN syncQueue :
          (/\ syncQueue[id].type = "UPDATE"
           /\ store[syncQueue[id].localId].id = NoId)
          => (id \in DOMAIN syncQueue' /\ syncQueue'[id] = syncQueue[id])]_vars

\* C4: an UPDATE or DELETE is in flight to the remote only for an entity whose
\* CREATE was replayed successfully and gave it a server identifier, and it
\* names a server identifier.
C4_CreateBeforeUpdateDelete ==
    \A d \in 1..Len(drains) :
        (InFlight(d) /\ Current(d).type \in {"UPDATE", "DELETE"})
        => /\ Current(d).localId \in DOMAIN store
           /\ store[Current(d).localId].id # NoId
           /\ Current(d).serverId # NoId

C4_Witness ==
    \E d \in 1..Len(drains) : InFlight(d) /\ Current(d).type \in {"UPDATE", "DELETE"}

\* C5: an UPDATE enqueued without a server identifier, whose entity has got
\* one from its CREATE since, leaves the queue only after it was submitted to
\* the remote (so that it is submitted at all).
C5_ResolvedAtReplay ==
    [][\A id \in DOMAIN syncQueue :
          (/\ syncQueue[id].type = "UPDATE"
           /\ syncQueue[id].serverId = NoId
           /\ store[syncQueue[id].localId].id # NoId
           /\ id \notin DOMAIN syncQueue')
          => id \in sent']_vars

\* C9: the operations one drain cycle has submitted so far were submitted in
\* non-decreasing order of their timestamps.
C9_TimestampOrder ==
    \A d \in 1..Len(drains) :
        \A j, k \in 1..Len(drains[d].log) :
            j < k => drains[d].log[j].timestamp <= drains[d].log[k].timestamp

C9_Witness ==
    \E d \in 1..Len(drains) :
        /\ Len(drains[d].log) = 2
        /\ drains[d].log[1].timestamp < drains[d].log[2].timestamp


\* C2: once the handling of a failed replay is over, no operation whose
\* attempt count has reached the ceiling is left in the queue.
C2_RemovedAtCeiling ==
    \A id \in DOMAIN syncQueue :
        syncQueue[id].attempts >= MaxAttempts
        => \E d \in 1..Len(drains) : drains[d].pc = "catch" /\ Current(d).id = id

\* C8: the handling of the fifth failure of an operation (four were recorded
\* when the drain read it) removes exactly that operation from the queue and
\* leaves every other entry as it was.
C8_FifthFailureRemovesOne ==
    [][\A d \in 1..Len(drains) :
          (/\ drains[d].pc = "catch"
           /\ Current(d).attempts = MaxAttempts - 1
           /\ Len(drains') = Len(drains)
           /\ drains'[d].pc = "next")
          => syncQueue' = Remove(syncQueue, Current(d).id)]_vars

Idle == drains = <<>> /\ timers = [b \in BOOLEAN |-> 0]

\* C6: while connectivity stays online and the remote always succeeds, a
\* queue that holds operations eventually becomes empty, and an empty queue
\* stays empty until an operation is enqueued.
C6_QueueDrains ==
    /\ (DOMAIN syncQueue # {}) ~> (DOMAIN syncQueue = {})
    /\ [][(DOMAIN syncQueue = {} /\ DOMAIN syncQueue' # {}) => nextId' = nextId + 1]_vars

C6_Witness ==
    /\ nextId = MaxOps + 1
    /\ DOMAIN syncQueue = {}
    /\ Idle

\* C7: with connectivity online and a remote that always succeeds, once the
\* queue has drained every local entity is `synced`.
C7_AllSyncedWhenDrained ==
    (DOMAIN syncQueue = {} /\ Idle /\ Cells = rendered)
    => \A l \in DOMAIN store : store[l].syncStatus = "synced"

\* C11: when one drain cycle, alone, has replayed the CREATE of a parent and
\* then the CREATE of its child, both read from the queue together, and the
\* remote always succeeds, the parent reference stored with the child is the
\* server identifier the parent got.
C11_ParentReferenceRebound ==
    \A d \in 1..Len(drains) :
        LET dr == drains[d] IN
        (Len(drains) = 1 /\ dr.pc = "next" /\ dr.i > Len(dr.ops))
        => \A j, k \in 1..Len(dr.ops) :
              (/\ j < k
               /\ dr.ops[j].type = "CREATE" /\ dr.ops[k].type = "CREATE"
               /\ dr.ops[k].localId # "s1"
               /\ dr.ops[j].localId = ParentOf(dr.ops[k].localId))
              => store[dr.ops[k].localId].parent = store[dr.ops[j].localId].id

\* C12: the CREATE of an item or a defect is in flight to the remote only when
\* the CREATE of its parent has succeeded, so that the parent has a server
\* identifier.
C12_ParentCreatedFirst ==
    \A d \in 1..Len(drains) :
        (InFlight(d) /\ Current(d).type = "CREATE" /\ Current(d).localId # "s1")
        => store[ParentOf(Current(d).localId)].id # NoId

\* C13: an operation leaves the queue only in the step that resolves its
\* submission to the remote, or in the handling of a failure when its attempt
\* count has reached the ceiling.
C13_RemovedOnlyAfterSubmission ==
    [][\A id \in DOMAIN syncQueue :
          id \notin DOMAIN syncQueue'
          => \E d \in 1..Len(drains) :
                /\ Len(drains') = Len(drains)
                /\ drains[d].pc \in {"await", "catch"}
                /\ Current(d).id = id
                /\ \/ InFlight(d) /\ drains'[d].pc = "next"
                   \/ drains[d].pc = "catch" /\ syncQueue[id].attempts >= MaxAttempts]_vars

\* C14: a drain starts only while connectivity is online, the pending count is
\* positive and no drain is running, and an operation is submitted to the
\* remote only while connectivity is online.
C14_DrainOnlyOnlineAndIdle ==
    [][/\ Len(drains') > Len(drains)
          => (isOnline /\ pendingCount > 0 /\ drains = <<>>)
       /\ \A d \in 1..Len(drains) :
             (Len(drains') = Len(drains) /\ ~InFlight(d) /\ drains'[d].pc = "await")
             => isOnline]_vars

\* C15: over a queue whose operations have all failed before, the effect starts
\* a drain only for a render in which connectivity or the pending count
\* changed, never for one in which only the end of the last cycle shows.
C15_NoImmediateRestart ==
    [][(/\ rendered' # rendered
        /\ Len(drains') > Len(drains)
        /\ \A id \in DOMAIN syncQueue : syncQueue[id].attempts > 0)
       => \/ rendered'.isOnline # rendered.isOnline
          \/ rendered'.pendingCount # rendered.pendingCount]_vars

\* C16: the failure of a submission of a queued operation raises the attempt
\* count stored with the operation by exactly one and records the error.
C16_FailureCountsOnce ==
    [][\A d \in 1..Len(drains) :
          (/\ InFlight(d)
           /\ Len(drains') = Len(drains)
           /\ drains'[d].pc = "catch"
           /\ Current(d).id \in DOMAIN syncQueue)
          => /\ syncQueue'[Current(d).id].attempts = syncQueue[Current(d).id].attempts + 1
             /\ syncQueue'[Current(d).id].lastError = "Error"]_vars

\* C17: when the handling of a failed attempt ends with the operation still
\* queued, the entity of the operation has sync status `error`.
C17_FailureMarksError ==
    [][\A d \in 1..Len(drains) :
          (/\ drains[d].pc = "catch"
           /\ Len(drains') = Len(drains)
           /\ drains'[d].pc = "next"
           /\ Current(d).id \in DOMAIN syncQueue'
           /\ Current(d).localId \in DOMAIN store)
          => store'[Current(d).localId].syncStatus = "error"]_vars

\* C18: the step that drops an operation at the retry ceiling leaves the local
\* store as it was, and the entity of the operation is there and not `synced`.
C18_DiscardKeepsEntityUnsynced ==
    [][\A d \in 1..Len(drains) :
          (/\ drains[d].pc = "catch"
           /\ Len(drains') = Len(drains)
           /\ drains'[d].pc = "next"
           /\ Current(d).id \in DOMAIN syncQueue
           /\ Current(d).id \notin DOMAIN syncQueue')
          => /\ store' = store
             /\ Current(d).localId \in DOMAIN store
             /\ store[Current(d).localId].syncStatus # "synced"]_vars

\* C19: the step in which the CREATE of a session, an item or a defect
\* succeeds leaves the local entity with the server identifier of the response
\* and sync status `synced`, and the operation out of the queue.
C19_CreateSucceeded ==
    [][\A d \in 1..Len(drains) :
          (InFlight(d) /\ Len(drains') = Len(drains) /\ drains'[d].resp # NoId)
          => /\ Current(d).localId \in DOMAIN store'
             /\ store'[Current(d).localId].id = drains'[d].resp
             /\ store'[Current(d).localId].syncStatus = "synced"
             /\ Current(d).id \notin DOMAIN syncQueue']_vars

C19_Witness ==
    \E d \in 1..Len(drains) :
        /\ drains[d].resp # NoId
        /\ drains[d].ops[drains[d].i - 1].entityType = "defect"
        /\ store["d1"].syncStatus = "synced"

\* C20: an enqueue adds one operation, under the next key, with attempt count
\* 0 and no last error, raises the pending count by one, leaves every queued
\* operation and every running drain as they were, and changes nothing in the
\* local store but the sync status, pending, that the caller writes on the
\* entity it enqueues.
C20_EnqueueAppendsOne ==
    [][nextId' # nextId
       => /\ nextId' = nextId + 1
          /\ DOMAIN syncQueue' = DOMAIN syncQueue \cup {nextId}
          /\ nextId \notin DOMAIN syncQueue
          /\ syncQueue'[nextId].id = nextId
          /\ syncQueue'[nextId].attempts = 0
          /\ syncQueue'[nextId].lastError = "none"
          /\ \A k \in DOMAIN syncQueue : syncQueue'[k] = syncQueue[k]
          /\ pendingCount' = pendingCount + 1
          /\ drains' = drains
          /\ \A l \in DOMAIN store :
                /\ l \in DOMAIN store'
                /\ store'[l].id = store[l].id
                /\ store'[l].parent = store[l].parent
                /\ store'[l] # store[l]
                   => /\ l = syncQueue'[nextId].localId
                      /\ store'[l] = [store[l] EXCEPT !.syncStatus = "pending"]]_vars

\* An operation enqueued while a drain, which read the queue before, is at
\* work and connectivity is offline.
C20_Witness ==
    /\ ~isOnline
    /\ \E d \in 1..Len(drains) :
          /\ drains[d].pc = "await"
          /\ \E id \in DOMAIN syncQueue :
                /\ \A j \in 1..Len(drains[d].ops) : drains[d].ops[j].id # id
                /\ syncQueue[id].attempts = 0
                /\ syncQueue[id].lastError = "none"

\* The operations of its snapshot that the loop of drain record dr has reached.
Reached(dr) ==
    IF dr.pc = "read" THEN <<>>
    ELSE SubSeq(dr.ops, 1, IF dr.pc = "next" THEN dr.i - 1 ELSE dr.i)

\* C21: whatever the outcome of the operations before it, a drain cycle has
\* submitted every operation of its snapshot that its loop has reached and
\* that calls the remote; a cycle at its end has reached them all.
C21_NoFailFast ==
    \A d \in 1..Len(drains) :
        /\ drains[d].log = SelectSeq(Reached(drains[d]), CallsRemote)
        /\ drains[d].pc # "read" => drains[d].i <= Len(drains[d].ops) + 1

\* The second operation of a cycle in flight after the first one failed in it.
C21_Witness ==
    \E d \in 1..Len(drains) :
        /\ Len(drains) = 1
        /\ Len(drains[d].ops) = 2
        /\ InFlight(d) /\ drains[d].i = 2
        /\ Len(drains[d].log) = 2
        /\ drains[d].ops[1].attempts = 0
        /\ drains[d].ops[1].id \in DOMAIN syncQueue
        /\ syncQueue[drains[d].ops[1].id].attempts = 1

SnapshotIds(d) == {drains[d].ops[j].id : j \in 1..Len(drains[d].ops)}

C23_DrainTerminates == isSyncing ~> ~isSyncing

\* Back to idle after a cycle in which one operation succeeded and one failed.
C23_Witness ==
    /\ ~isSyncing
    /\ drains = <<>>
    /\ nextId = MaxOps + 1
    /\ Cardinality(DOMAIN syncQueue) = 1
    /\ \A id \in DOMAIN syncQueue : syncQueue[id].attempts = 1

\* C24: the step in which the request of a DELETE resolves removes the
\* operation from the queue and leaves the local store as it was.
C24_DeleteKeepsEntity ==
    [][\A d \in 1..Len(drains) :
          (/\ InFlight(d)
           /\ Current(d).type = "DELETE"
           /\ Len(drains') = Len(drains)
           /\ drains'[d].pc = "next")
          => /\ store' = store
             /\ Current(d).id \notin DOMAIN syncQueue']_vars

\* The DELETE of the defect was replayed; the defect is still in the store.
C24_Witness ==
    \E d \in 1..Len(drains) :
        /\ drains[d].pc = "next"
        /\ drains[d].i > 1
        /\ drains[d].ops[drains[d].i - 1].type = "DELETE"
        /\ drains[d].ops[drains[d].i - 1].localId = "d1"
        /\ drains[d].ops[drains[d].i - 1].id \in sent
        /\ drains[d].ops[drains[d].i - 1].id \notin DOMAIN syncQueue
        /\ "d1" \in DOMAIN store

\* C26: a `synced` entity has a server identifier; an entity becomes `synced`
\* only in the step in which its CREATE succeeds; and no step of a drain
\* changes the status or the server identifier of a `synced` entity.
C26_SyncedIsStable ==
    [][/\ \A l \in DOMAIN store' :
             store'[l].syncStatus = "synced" => store'[l].id # NoId
       /\ \A l \in DOMAIN store :
             (store[l].syncStatus # "synced" /\ store'[l].syncStatus = "synced")
             => \E d \in 1..Len(drains) :
                   /\ InFlight(d)
                   /\ Current(d).type = "CREATE" /\ Current(d).localId = l
                   /\ Len(drains') = Len(drains)
                   /\ drains'[d].resp = store'[l].id
       /\ \A l \in DOMAIN store :
             (store[l].syncStatus = "synced" /\ nextId' = nextId)
             => store'[l] = store[l]]_vars

C25_SequenceIncreasing ==
    \A j, k \in 1..Len(dbItems) : j < k => dbItems[j] < dbItems[k]

AllAnswered == \A r \in 1..Len(reqs) : reqs[r].pc = "done"

\* C28: once every add-defect and delete-defect request is answered, the item
\* is DEFECTIVE exactly when it has a defect, and OK when it has none.
C28_StatusFollowsDefects ==
    AllAnswered => (dbItemStatus = "DEFECTIVE" <=> dbDefects # {})

\* C29: a token string has at most one successful refresh, and the step that
\* answers a refresh successfully leaves no stored token with the string that
\* was presented.
C29_RefreshTokenSingleUse ==
    [][/\ \A t \in 0..MaxSeconds :
             Cardinality({r \in 1..Len(reqs') :
                 reqs'[r].kind = "refresh" /\ reqs'[r].arg = t /\ reqs'[r].result = "ok"}) <= 1
       /\ \A r \in 1..Len(reqs) :
             (reqs[r].kind = "refresh" /\ reqs[r].pc # "done" /\ reqs'[r].result = "ok")
             => \A row \in dbTokens' : row.token # reqs[r].arg]_vars

\* C30: the update of a takeover never changes a session that is CLOSED.
C30_ClosedStaysClosed ==
    [][\A r \in 1..Len(reqs) :
          (At(r, "takeover", "update") /\ reqs'[r].pc = "done" /\ dbSession.status = "CLOSED")
          => dbSession' = dbSession]_vars

====
